---- MODULE Spec2Model ----
(***************************************************************************)
(* Model of the e-paper driver crate: the shared DisplayInterface          *)
(* (src/src/interface.rs) and the two panel drivers Epd5in65f              *)
(* (src/src/epd5in65f/mod.rs) and Epd7in5 (src/src/epd7in5_v2/mod.rs).     *)
(*                                                                         *)
(* Every function of the source is an operator that yields the sequence of *)
(* hardware instructions the function performs, in code order, built by    *)
(* concatenation exactly as the code calls its callees.  A `?` is the      *)
(* default: a fault ends the call.  `let _ = f()` is Discard(f).  The      *)
(* interpreter (Step, StepFor, Return) runs the current call one hardware  *)
(* operation at a time; the environment decides each operation's outcome   *)
(* (ok / fault, and for a busy-line read the level read).  `trace` records *)
(* the hardware operations of the current (or last) call.                  *)
(***************************************************************************)
EXTENDS Integers, Sequences, FiniteSets, TLC

VARIABLES
    target_os_linux, \* cfg!(target_os = "linux"), fixed by the build
    model,           \* which driver type was constructed: "none", "Epd5in65f", "Epd7in5"
    inst,            \* TRUE once new() has returned Ok(epd) to the caller
    color,           \* the driver's `color` field
    sleeping,        \* the panel is in deep sleep (deep-sleep opcode issued, no wake_up since)
    op,              \* the function being executed, or the last one executed
    buf,             \* its byte-slice argument (buffer / payload)
    arg,             \* its scalar arguments: [cmd, val, n, flag]
    prog,            \* the instructions of the running call (the body of op)
    pc,              \* position in prog of the running call; 0 when no call runs
    spins,           \* samples of the running call that read "busy" so far
    discards,        \* faults of the running call whose Result the code dropped so far
    res,             \* "running", "Ok", "PinError", "SPIError", "DelayError"
    trace,           \* hardware operations performed by the current / last call
    cycles,          \* sleep(); wake_up() pairs called in a row up to now (history)
    lines            \* level of the chip-select and data/command-select outputs

vars == <<target_os_linux, model, inst, color, sleeping, op, buf, arg, prog, pc, spins, discards, res, trace, cycles, lines>>

----------------------------------------------------------------------------
(* Bounds of the model *)

\* samples that read "busy" during one call, over all its wait loops
MaxSpin == 1
\* faults during one call whose Result the code drops (`let _ = ...`), so that the call goes on
MaxDiscard == 1
\* longest frame buffer handed to update_frame / update_and_display_frame
MaxBufLen == 1
\* iterations of data_x_times in which a fault is injected: the first MaxIter, and the last
MaxIter == 1
\* payloads of the transport-level data(): k full chunks plus e bytes, k <= MaxFullChunks, e <= MaxExtra
MaxFullChunks == 2
MaxExtra == 1
\* sleep(); wake_up() pairs in a row that are told apart
MaxCycles == 2

----------------------------------------------------------------------------
(* Program constants *)

\* data.chunks(4096)
SPI_CHUNK == 4096
\* reset(): delay.try_delay_ms(200) before and after the pulse
RESET_SETTLE_MS == 200
\* init(): self.interface.reset(delay, 2)
RESET_PULSE_MS == 2
\* Epd5in65f::init: delay.try_delay_ms(100)
FLASH_DELAY_MS == 100
\* Epd7in5::wait_until_idle: delay.try_delay_ms(20)
STATUS_POLL_MS == 20
\* the payload of the DeepSleep command, &[0xA5]
DEEP_SLEEP_CHECK == 165
Epd5in65f_WIDTH == 600
Epd5in65f_HEIGHT == 448
Epd7in5_WIDTH == 800
Epd7in5_HEIGHT == 480
Epd5in65f_IS_BUSY_LOW == TRUE
Epd7in5_IS_BUSY_LOW == TRUE
Epd5in65f_DEFAULT_BACKGROUND_COLOR == "White"
Epd7in5_DEFAULT_BACKGROUND_COLOR == "White"

U8(x) == x % 256
\* the product kept in 16 bits only
U16(x) == x % 65536

\* reduction modulo 2^32, by 16-bit halves
U32(x) == (((x \div 65536) % 65536) * 65536) + (x % 65536)

Min(a, b) == IF a < b THEN a ELSE b

\* crate::color::OctColor and crate::color::Color (the palettes of the two models)
OctColor == {"Black", "White", "Green", "Blue", "Red", "Yellow", "Orange", "HiZ"}
Color == {"Black", "White"}
Palette(m) == IF m = "Epd5in65f" THEN OctColor ELSE Color

\* OctColor::get_nibble: the 4-bit palette index of a color
get_nibble(c) ==
    CASE c = "Black" -> 0 [] c = "White" -> 1 [] c = "Green" -> 2 [] c = "Blue" -> 3
      [] c = "Red" -> 4 [] c = "Yellow" -> 5 [] c = "Orange" -> 6 [] OTHER -> 7

\* OctColor::colors_byte(a, b): two pixels per byte, high nibble = first pixel
colors_byte(a, b) == U8(get_nibble(a) * 16 + get_nibble(b))

\* Command::address(): the opcode byte of a command of the models' command tables
address(c) ==
    CASE c = "PanelSetting" -> 0
      [] c = "PowerSetting" -> 1
      [] c = "PowerOff" -> 2
      [] c = "PowerOffSequenceSetting" -> 3
      [] c = "PowerOn" -> 4
      [] c = "BoosterSoftStart" -> 6
      [] c = "DeepSleep" -> 7
      [] c = "DataStartTransmission1" -> 16
      [] c = "DisplayRefresh" -> 18
      [] c = "DataStartTransmission2" -> 19
      [] c = "DualSpi" -> 21
      [] c = "PllControl" -> 48
      [] c = "TemperatureSensor" -> 65
      [] c = "VcomAndDataIntervalSetting" -> 80
      [] c = "TconSetting" -> 96
      [] c = "TconResolution" -> 97
      [] c = "GetStatus" -> 113
      [] OTHER -> 227  \* FlashMode

Commands ==
    {"PanelSetting", "PowerSetting", "PowerOff", "PowerOffSequenceSetting", "PowerOn",
     "BoosterSoftStart", "DeepSleep", "DataStartTransmission1", "DisplayRefresh",
     "DataStartTransmission2", "DualSpi", "PllControl", "TemperatureSensor",
     "VcomAndDataIntervalSetting", "TconSetting", "TconResolution", "GetStatus", "FlashMode"}

----------------------------------------------------------------------------
(* Instructions: one per fallible hardware call of the source.              *)
(*   k     "rst_high" "rst_low" "dc_high" "dc_low" "cs_high" "cs_low"       *)
(*         (try_set_high / try_set_low on that pin), "spi" (try_write of    *)
(*         bytes), "delay" (try_delay_ms(v)), "wait" (the loop of           *)
(*         DisplayInterface::wait_until_idle(pol)), "poll" (the loop head   *)
(*         of Epd7in5::wait_until_idle, body of n instructions follows),    *)
(*         "loop" (back to the poll n instructions above), "for" (the loop  *)
(*         of data_x_times: v iterations of the n instructions that follow) *)
(*   ign   the caller discards the Result (`let _ = ...`)                   *)

Ins(k, v, bytes, pol, n) == [k |-> k, v |-> v, bytes |-> bytes, pol |-> pol, n |-> n, ign |-> FALSE]
Pin(k) == Ins(k, 0, <<>>, FALSE, 0)
SpiWrite(bytes) == Ins("spi", 0, bytes, FALSE, 0)
DelayMs(ms) == Ins("delay", ms, <<>>, FALSE, 0)

\* `let _ = f(...)`: the Result of f is dropped (f is a single-instruction call)
Discard(f) == [i \in DOMAIN f |-> [f[i] EXCEPT !.ign = TRUE]]

\* chunks() with the number of chunks rounded down: a trailing short chunk is lost
chunks_rounded_down(d, size) ==
    [i \in 1..(Len(d) \div size) |-> SubSeq(d, (i - 1) * size + 1, i * size)]

\* slice::chunks(size): consecutive sub-slices of at most `size` elements; none for an empty slice
chunks(d, size) ==
    [i \in 1..((Len(d) + size - 1) \div size) |->
        SubSeq(d, (i - 1) * size + 1, Min(i * size, Len(d)))]

\* write() with chip-select toggled around every chunk instead of around the whole write
RECURSIVE FramedChunks(_)
FramedChunks(cs) ==
    IF cs = <<>> THEN <<>>
    ELSE <<Pin("cs_low"), SpiWrite(Head(cs)), Pin("cs_high")>> \o FramedChunks(Tail(cs))
write_cs_per_chunk(d) ==
    IF target_os_linux
    THEN FramedChunks(chunks(d, SPI_CHUNK))
    ELSE <<Pin("cs_low"), SpiWrite(d), Pin("cs_high")>>

\* DisplayInterface::write
write(d) ==
    <<Pin("cs_low")>>
    \o (IF target_os_linux
        THEN [i \in DOMAIN chunks(d, SPI_CHUNK) |-> SpiWrite(chunks(d, SPI_CHUNK)[i])]
        ELSE <<SpiWrite(d)>>)
    \o <<Pin("cs_high")>>

\* DisplayInterface::cmd
cmd(command) == <<Pin("dc_low")>> \o write(<<address(command)>>)

\* data() leaving the data/command-select line at "command"
data_command_select_low(d) == <<Pin("dc_low")>> \o write(d)

\* DisplayInterface::data
data(d) == <<Pin("dc_high")>> \o write(d)

\* DisplayInterface::cmd_with_data
cmd_with_data(command, d) == cmd(command) \o data(d)

\* DisplayInterface::data_x_times
data_x_times(val, repetitions) ==
    <<Pin("dc_high")>>
    \o <<Ins("for", repetitions, <<val>>, FALSE, Len(write(<<val>>)))>>
    \o write(<<val>>)

\* wait_until_idle polling in the opposite sense
wait_until_idle_inverted(is_busy_low) == <<Ins("wait", 0, <<>>, ~is_busy_low, 0)>>

\* DisplayInterface::wait_until_idle
wait_until_idle(is_busy_low) == <<Ins("wait", 0, <<>>, is_busy_low, 0)>>

\* reset() holding the line low for 10 ms whatever the caller asks for
reset_fixed_pulse(duration) ==
    <<Pin("rst_high"), DelayMs(RESET_SETTLE_MS),
      Pin("rst_low"), DelayMs(10),
      Pin("rst_high"), DelayMs(RESET_SETTLE_MS)>>

\* DisplayInterface::reset
reset(duration) ==
    <<Pin("rst_high"), DelayMs(RESET_SETTLE_MS),
      Pin("rst_low"), DelayMs(duration),
      Pin("rst_high"), DelayMs(RESET_SETTLE_MS)>>

----------------------------------------------------------------------------
(* Epd5in65f: the 600x448 eight-color panel (src/src/epd5in65f/mod.rs) *)

Epd5in65f_width == Epd5in65f_WIDTH
Epd5in65f_height == Epd5in65f_HEIGHT

Epd5in65f_command(command) == cmd(command)
Epd5in65f_send_data(d) == data(d)
Epd5in65f_cmd_with_data(command, d) == cmd_with_data(command, d)

\* fn wait_busy_high(&mut self) { let _ = self.interface.wait_until_idle(true); }
Epd5in65f_wait_busy_high == Discard(wait_until_idle(TRUE))
\* wait_busy_low() waiting with the same sense as wait_busy_high()
Epd5in65f_wait_busy_low_same_sense == Discard(wait_until_idle(TRUE))

\* fn wait_busy_low(&mut self) { let _ = self.interface.wait_until_idle(false); }
Epd5in65f_wait_busy_low == Discard(wait_until_idle(FALSE))

\* send_resolution() sending the low byte of each field first
Epd5in65f_send_resolution_low_byte_first ==
    Epd5in65f_command("TconResolution")
    \o Epd5in65f_send_data(<<U8(Epd5in65f_width)>>)
    \o Epd5in65f_send_data(<<U8(Epd5in65f_width \div 256)>>)
    \o Epd5in65f_send_data(<<U8(Epd5in65f_height)>>)
    \o Epd5in65f_send_data(<<U8(Epd5in65f_height \div 256)>>)

Epd5in65f_send_resolution ==
    Epd5in65f_command("TconResolution")
    \o Epd5in65f_send_data(<<U8(Epd5in65f_width \div 256)>>)
    \o Epd5in65f_send_data(<<U8(Epd5in65f_width)>>)
    \o Epd5in65f_send_data(<<U8(Epd5in65f_height \div 256)>>)
    \o Epd5in65f_send_data(<<U8(Epd5in65f_height)>>)

\* init() with the Result of the 100 ms delay dropped
Epd5in65f_init_delay_unchecked ==
    reset(RESET_PULSE_MS)
    \o Epd5in65f_cmd_with_data("PanelSetting", <<239, 8>>)
    \o Epd5in65f_cmd_with_data("PowerSetting", <<55, 0, 35, 35>>)
    \o Epd5in65f_cmd_with_data("PowerOffSequenceSetting", <<0>>)
    \o Epd5in65f_cmd_with_data("BoosterSoftStart", <<199, 199, 29>>)
    \o Epd5in65f_cmd_with_data("PllControl", <<60>>)
    \o Epd5in65f_cmd_with_data("TemperatureSensor", <<0>>)
    \o Epd5in65f_cmd_with_data("VcomAndDataIntervalSetting", <<55>>)
    \o Epd5in65f_cmd_with_data("TconSetting", <<34>>)
    \o Epd5in65f_send_resolution
    \o Epd5in65f_cmd_with_data("FlashMode", <<170>>)
    \o Discard(<<DelayMs(FLASH_DELAY_MS)>>)
    \o Epd5in65f_cmd_with_data("VcomAndDataIntervalSetting", <<55>>)

Epd5in65f_init ==
    reset(RESET_PULSE_MS)
    \o Epd5in65f_cmd_with_data("PanelSetting", <<239, 8>>)
    \o Epd5in65f_cmd_with_data("PowerSetting", <<55, 0, 35, 35>>)
    \o Epd5in65f_cmd_with_data("PowerOffSequenceSetting", <<0>>)
    \o Epd5in65f_cmd_with_data("BoosterSoftStart", <<199, 199, 29>>)
    \o Epd5in65f_cmd_with_data("PllControl", <<60>>)
    \o Epd5in65f_cmd_with_data("TemperatureSensor", <<0>>)
    \o Epd5in65f_cmd_with_data("VcomAndDataIntervalSetting", <<55>>)
    \o Epd5in65f_cmd_with_data("TconSetting", <<34>>)
    \o Epd5in65f_send_resolution
    \o Epd5in65f_cmd_with_data("FlashMode", <<170>>)
    \o <<DelayMs(FLASH_DELAY_MS)>>
    \o Epd5in65f_cmd_with_data("VcomAndDataIntervalSetting", <<55>>)

\* wake_up() that configures the registers without the reset pulse
Epd5in65f_wake_up_without_reset == SubSeq(Epd5in65f_init, Len(reset(RESET_PULSE_MS)) + 1, Len(Epd5in65f_init))

Epd5in65f_new == Epd5in65f_init
Epd5in65f_wake_up == Epd5in65f_init

Epd5in65f_sleep == Epd5in65f_cmd_with_data("DeepSleep", <<DEEP_SLEEP_CHECK>>)

Epd5in65f_update_frame(buffer) ==
    Epd5in65f_wait_busy_high
    \o Epd5in65f_send_resolution
    \o Epd5in65f_cmd_with_data("DataStartTransmission1", buffer)

\* display_frame() powering off before it refreshes
Epd5in65f_display_frame_off_first ==
    Epd5in65f_wait_busy_high
    \o Epd5in65f_command("PowerOn")
    \o Epd5in65f_wait_busy_high
    \o Epd5in65f_command("PowerOff")
    \o Epd5in65f_wait_busy_high
    \o Epd5in65f_command("DisplayRefresh")
    \o Epd5in65f_wait_busy_low

Epd5in65f_display_frame ==
    Epd5in65f_wait_busy_high
    \o Epd5in65f_command("PowerOn")
    \o Epd5in65f_wait_busy_high
    \o Epd5in65f_command("DisplayRefresh")
    \o Epd5in65f_wait_busy_high
    \o Epd5in65f_command("PowerOff")
    \o Epd5in65f_wait_busy_low

Epd5in65f_update_and_display_frame(buffer) ==
    Epd5in65f_update_frame(buffer)
    \o Epd5in65f_display_frame

\* clear_frame() that does not wait before it sends the resolution
Epd5in65f_clear_frame_without_wait(c) ==
    Epd5in65f_send_resolution
    \o Epd5in65f_command("DataStartTransmission1")
    \o data_x_times(colors_byte(c, c), U32(Epd5in65f_WIDTH * Epd5in65f_HEIGHT) \div 2)
    \o Epd5in65f_display_frame

\* bg = OctColor::colors_byte(self.color, self.color); repetitions WIDTH * HEIGHT / 2 in u32
Epd5in65f_clear_frame(c) ==
    Epd5in65f_wait_busy_high
    \o Epd5in65f_send_resolution
    \o Epd5in65f_command("DataStartTransmission1")
    \o data_x_times(colors_byte(c, c), U32(Epd5in65f_WIDTH * Epd5in65f_HEIGHT) \div 2)
    \o Epd5in65f_display_frame

----------------------------------------------------------------------------
(* Epd7in5: the 800x480 monochrome panel, V2 (src/src/epd7in5_v2/mod.rs) *)

Epd7in5_width == Epd7in5_WIDTH
Epd7in5_height == Epd7in5_HEIGHT

Epd7in5_command(command) == cmd(command)
Epd7in5_send_data(d) == data(d)
Epd7in5_cmd_with_data(command, d) == cmd_with_data(command, d)

\* the busy wait of the 800x480 model only sampling the line
Epd7in5_wait_until_idle_passive == wait_until_idle(Epd7in5_IS_BUSY_LOW)

\* while self.interface.is_busy(IS_BUSY_LOW) { cmd(GetStatus)?; delay.try_delay_ms(20)?; }
\* The condition is a Result; a fault of the busy-pin read ends the call, as
\* it does in DisplayInterface::wait_until_idle (`while self.is_busy(..)?`).
Epd7in5_wait_until_idle ==
    LET body == cmd("GetStatus") \o <<DelayMs(STATUS_POLL_MS)>>
    IN  <<Ins("poll", 0, <<>>, Epd7in5_IS_BUSY_LOW, Len(body))>>
        \o body
        \o <<Ins("loop", 0, <<>>, FALSE, Len(body))>>

Epd7in5_send_resolution ==
    Epd7in5_command("TconResolution")
    \o Epd7in5_send_data(<<U8(Epd7in5_width \div 256)>>)
    \o Epd7in5_send_data(<<U8(Epd7in5_width)>>)
    \o Epd7in5_send_data(<<U8(Epd7in5_height \div 256)>>)
    \o Epd7in5_send_data(<<U8(Epd7in5_height)>>)

Epd7in5_init ==
    reset(RESET_PULSE_MS)
    \o Epd7in5_cmd_with_data("BoosterSoftStart", <<23, 23, 39, 23>>)
    \o Epd7in5_cmd_with_data("PowerSetting", <<7, 23, 63, 63>>)
    \o Epd7in5_command("PowerOn")
    \o Epd7in5_wait_until_idle
    \o Epd7in5_cmd_with_data("PanelSetting", <<31>>)
    \o Epd7in5_cmd_with_data("PllControl", <<6>>)
    \o Epd7in5_cmd_with_data("TconResolution", <<3, 32, 1, 224>>)
    \o Epd7in5_cmd_with_data("DualSpi", <<0>>)
    \o Epd7in5_cmd_with_data("TconSetting", <<34>>)
    \o Epd7in5_cmd_with_data("VcomAndDataIntervalSetting", <<16, 7>>)
    \o Epd7in5_wait_until_idle

Epd7in5_new == Epd7in5_init
Epd7in5_wake_up == Epd7in5_init

\* sleep() that powers off but never sends the deep-sleep command
Epd7in5_sleep_power_off_only ==
    Epd7in5_wait_until_idle
    \o Epd7in5_command("PowerOff")
    \o Epd7in5_wait_until_idle

Epd7in5_sleep ==
    Epd7in5_wait_until_idle
    \o Epd7in5_command("PowerOff")
    \o Epd7in5_wait_until_idle
    \o Epd7in5_cmd_with_data("DeepSleep", <<DEEP_SLEEP_CHECK>>)

Epd7in5_update_frame_plane1(buffer) ==
    Epd7in5_wait_until_idle
    \o Epd7in5_cmd_with_data("DataStartTransmission1", buffer)

Epd7in5_update_frame(buffer) ==
    Epd7in5_wait_until_idle
    \o Epd7in5_cmd_with_data("DataStartTransmission2", buffer)

Epd7in5_display_frame ==
    Epd7in5_wait_until_idle
    \o Epd7in5_command("DisplayRefresh")

Epd7in5_update_and_display_frame(buffer) ==
    Epd7in5_update_frame(buffer)
    \o Epd7in5_command("DisplayRefresh")

\* both planes are filled with 0x00, WIDTH * HEIGHT / 8 times each (u32)
Epd7in5_clear_frame ==
    Epd7in5_wait_until_idle
    \o Epd7in5_send_resolution
    \o Epd7in5_command("DataStartTransmission1")
    \o data_x_times(0, U32(Epd7in5_WIDTH * Epd7in5_HEIGHT) \div 8)
    \o Epd7in5_command("DataStartTransmission2")
    \o data_x_times(0, U32(Epd7in5_WIDTH * Epd7in5_HEIGHT) \div 8)
    \o Epd7in5_command("DisplayRefresh")

----------------------------------------------------------------------------
(* The call being executed *)

NoArg == [cmd |-> "PanelSetting", val |-> 0, n |-> 0, flag |-> FALSE, color |-> "none"]

\* the body of function o of driver m (or of the transport), called with the
\* slice b and the scalars a, while the driver's color field is c
ProgramOf(o, m, b, a, c) ==
    CASE o = "new" /\ m = "Epd5in65f" -> Epd5in65f_new
      [] o = "wake_up" /\ m = "Epd5in65f" -> Epd5in65f_wake_up
      [] o = "sleep" /\ m = "Epd5in65f" -> Epd5in65f_sleep
      [] o = "update_frame" /\ m = "Epd5in65f" -> Epd5in65f_update_frame(b)
      [] o = "display_frame" /\ m = "Epd5in65f" -> Epd5in65f_display_frame
      [] o = "update_and_display_frame" /\ m = "Epd5in65f" ->
            Epd5in65f_update_and_display_frame(b)
      [] o = "clear_frame" /\ m = "Epd5in65f" -> Epd5in65f_clear_frame(c)
      [] o = "new" /\ m = "Epd7in5" -> Epd7in5_new
      [] o = "wake_up" /\ m = "Epd7in5" -> Epd7in5_wake_up
      [] o = "sleep" /\ m = "Epd7in5" -> Epd7in5_sleep
      [] o = "update_frame" /\ m = "Epd7in5" -> Epd7in5_update_frame(b)
      [] o = "display_frame" /\ m = "Epd7in5" -> Epd7in5_display_frame
      [] o = "update_and_display_frame" /\ m = "Epd7in5" ->
            Epd7in5_update_and_display_frame(b)
      [] o = "clear_frame" /\ m = "Epd7in5" -> Epd7in5_clear_frame
      [] o = "cmd" -> cmd(a.cmd)
      [] o = "data" -> data(b)
      [] o = "cmd_with_data" -> cmd_with_data(a.cmd, b)
      [] o = "data_x_times" -> data_x_times(a.val, a.n)
      [] o = "wait_until_idle" -> wait_until_idle(a.flag)
      [] o = "reset" -> reset(a.val)
      [] OTHER -> <<>>

----------------------------------------------------------------------------
(* Hardware operations and their outcomes *)

\* one hardware operation as it happened: r is the value a busy-pin read
\* returned (try_is_low for k = "is_low", try_is_high for k = "is_high"), ok
\* is FALSE when the HAL call returned Err.  k = "repeat": v complete
\* iterations of the data_x_times loop (cs_low, spi <<byte>>, cs_high each).
Ev(k, v, bytes, r, ok) == [k |-> k, v |-> v, bytes |-> bytes, r |-> r, ok |-> ok]

\* Error::SPIError / Error::DelayError / Error::PinError, by the call that failed
ErrOf(k) ==
    IF k = "spi" THEN "SPIError" ELSE IF k = "delay" THEN "DelayError" ELSE "PinError"

\* is_busy with the two pin reads exchanged
is_busy_inverted(is_busy_low, try_is_low, try_is_high) ==
    (is_busy_low /\ try_is_high) \/ (~is_busy_low /\ try_is_low)

\* DisplayInterface::is_busy:
\*   (is_busy_low && busy.try_is_low()?) || (!is_busy_low && busy.try_is_high()?)
\* given what the two pin reads return
is_busy(is_busy_low, try_is_low, try_is_high) ==
    (is_busy_low /\ try_is_low) \/ (~is_busy_low /\ try_is_high)

\* the one pin read is_busy performs: try_is_low() when is_busy_low, else try_is_high()
SampleKind(is_busy_low) == IF is_busy_low THEN "is_low" ELSE "is_high"

\* the answer of is_busy(is_busy_low) when its pin read produced event e
BusyAnswer(is_busy_low, e) ==
    is_busy(is_busy_low, e.k = "is_low" /\ e.r, e.k = "is_high" /\ e.r)

IsSample(e) == e.k \in {"is_low", "is_high"}

\* the instruction after pc: a "loop" jumps back to its "poll"
Succ(P, q) ==
    IF q + 1 <= Len(P) /\ P[q + 1].k = "loop" THEN q - P[q + 1].n ELSE q + 1

\* control flow after the instruction at q produced event e
Advance(P, q, e) ==
    LET ins == P[q]
    IN  IF ~e.ok
        THEN IF ins.ign
             THEN [pc |-> Succ(P, q), res |-> "running"]
             ELSE [pc |-> 0, res |-> ErrOf(ins.k)]
        ELSE IF ins.k = "wait"
        THEN [pc |-> IF BusyAnswer(ins.pol, e) THEN q ELSE Succ(P, q), res |-> "running"]
        ELSE IF ins.k = "poll"
        THEN [pc |-> IF BusyAnswer(ins.pol, e) THEN q + 1 ELSE q + ins.n + 2,
              res |-> "running"]
        ELSE [pc |-> Succ(P, q), res |-> "running"]

\* the events a pin write, bus write or delay can produce
HwOutcomes(ins) == {Ev(ins.k, ins.v, ins.bytes, FALSE, ok) : ok \in BOOLEAN}

\* the events one busy-line sample can produce
SampleOutcomes(ins, mayBeBusy, mayFault) ==
    {Ev(SampleKind(ins.pol), 0, <<>>, r, TRUE) : r \in (IF mayBeBusy THEN BOOLEAN ELSE {FALSE})}
    \cup (IF mayFault THEN {Ev(SampleKind(ins.pol), 0, <<>>, FALSE, FALSE)} ELSE {})

Running == pc >= 1 /\ pc <= Len(prog)

\* the output a pin write drives and the level it drives it to
LineOf(k) ==
    IF k \in {"cs_high", "cs_low"} THEN "cs"
    ELSE IF k \in {"dc_high", "dc_low"} THEN "dc" ELSE "none"
LevelOf(k) == IF k \in {"cs_high", "dc_high"} THEN "high" ELSE "low"

\* the levels of chip-select and data/command-select after event e: a pin
\* write that returned Ok has set the level; one that returned Err may or may
\* not have
LinesAfter(l, e) ==
    IF LineOf(e.k) = "none" THEN {l}
    ELSE {[l EXCEPT ![LineOf(e.k)] = LevelOf(e.k)]} \cup (IF e.ok THEN {} ELSE {l})

\* the levels after a sequence of events, starting from any of L
RECURSIVE LinesAfterAll(_, _)
LinesAfterAll(L, es) ==
    IF es = <<>> THEN L
    ELSE LinesAfterAll(UNION {LinesAfter(l, Head(es)) : l \in L}, Tail(es))

\* the deep-sleep opcode goes out on the bus
IssuesDeepSleep(ins, e) ==
    op = "sleep" /\ e.ok /\ ins.k = "spi" /\ ins.bytes = <<address("DeepSleep")>>

\* a pin write, a bus write or a delay
StepHw ==
    /\ Running
    /\ prog[pc].k \in {"rst_high", "rst_low", "dc_high", "dc_low", "cs_high", "cs_low",
                          "spi", "delay"}
    /\ \E e \in HwOutcomes(prog[pc]) :
          /\ trace' = Append(trace, e)
          /\ pc' = Advance(prog, pc, e).pc
          /\ res' = Advance(prog, pc, e).res
          /\ sleeping' = (sleeping \/ IssuesDeepSleep(prog[pc], e))
          /\ lines' \in LinesAfter(lines, e)
    /\ UNCHANGED <<cycles, target_os_linux, model, inst, color, op, buf, arg, prog, spins, discards>>

\* one iteration of a busy-wait loop: a sample of the busy line
StepSample ==
    /\ Running
    /\ prog[pc].k \in {"wait", "poll"}
    /\ \E e \in SampleOutcomes(prog[pc], spins < MaxSpin,
                                ~prog[pc].ign \/ discards < MaxDiscard) :
          /\ trace' = Append(trace, e)
          /\ pc' = Advance(prog, pc, e).pc
          /\ res' = Advance(prog, pc, e).res
          /\ spins' = IF e.ok /\ e.r THEN spins + 1 ELSE spins
          /\ discards' = IF ~e.ok /\ prog[pc].ign THEN discards + 1 ELSE discards
    /\ UNCHANGED <<lines, cycles, target_os_linux, model, inst, color, sleeping, op, buf, arg, prog>>

\* the iterations of the data_x_times loop before which a fault is injected
FaultIters(v) == (0..(Min(MaxIter, v) - 1)) \cup (IF v > 0 THEN {v - 1} ELSE {})

\* the loop of data_x_times: either all v iterations complete, or j of them
\* complete and the next one fails at its p-th hardware operation
StepFor ==
    /\ Running
    /\ prog[pc].k = "for"
    /\ LET ins == prog[pc]
           body == SubSeq(prog, pc + 1, pc + ins.n)
           run(p) == [i \in 1..p |-> Ev(body[i].k, body[i].v, body[i].bytes, FALSE, i < p)]
           whole == [i \in 1..ins.n |-> Ev(body[i].k, body[i].v, body[i].bytes, FALSE, TRUE)]
           after(j) == IF j > 0 THEN LinesAfterAll({lines}, whole) ELSE {lines}
       IN  \/ /\ trace' = Append(trace, Ev("repeat", ins.v, ins.bytes, FALSE, TRUE))
              /\ pc' = pc + ins.n + 1
              /\ res' = "running"
              /\ lines' \in after(ins.v)
           \/ \E j \in FaultIters(ins.v), p \in 1..ins.n :
                 /\ trace' = trace \o <<Ev("repeat", j, ins.bytes, FALSE, TRUE)>> \o run(p)
                 /\ pc' = 0
                 /\ res' = ErrOf(body[p].k)
                 /\ lines' \in LinesAfterAll(after(j), run(p))
    /\ UNCHANGED <<cycles, target_os_linux, model, inst, color, sleeping, op, buf, arg, prog, spins, discards>>

\* the call returns Ok; new() hands the instance to the caller
Return ==
    /\ pc = Len(prog) + 1
    /\ pc' = 0
    /\ res' = "Ok"
    /\ inst' = (inst \/ op = "new")
    /\ UNCHANGED <<lines, cycles, target_os_linux, model, color, sleeping, op, buf, arg, prog, spins, discards, trace>>

----------------------------------------------------------------------------
(* Calls of the lifecycle contract *)

Models == {"Epd5in65f", "Epd7in5"}

DefaultColor(m) ==
    IF m = "Epd5in65f" THEN Epd5in65f_DEFAULT_BACKGROUND_COLOR
    ELSE Epd7in5_DEFAULT_BACKGROUND_COLOR

\* the frame buffers handed to update_frame / update_and_display_frame: the
\* length is the caller's business (it is not checked), the bytes differ
Buffers == {[i \in 1..n |-> ((7 * i) + seed) % 251] : n \in 0..MaxBufLen, seed \in {0, 100}}

\* the colors handed to set_background_color
ColorInputs(m) == IF m = "Epd5in65f" THEN {"Black", "White", "Orange"} ELSE Color

\* a sleep() directly after a wake_up() and a wake_up() directly after a
\* sleep() continue the row of cycles; any other call ends it
CyclesAfter(o) ==
    IF o = "wake_up" THEN (IF op = "sleep" THEN Min(cycles + 1, MaxCycles) ELSE 0)
    ELSE IF o = "sleep" THEN (IF op = "wake_up" THEN cycles ELSE 0)
    ELSE 0

Begin(o, m, b, a) ==
    /\ cycles' = CyclesAfter(o)
    /\ op' = o
    /\ buf' = b
    /\ arg' = a
    /\ prog' = ProgramOf(o, m, b, a, color)
    /\ pc' = 1
    /\ spins' = 0
    /\ discards' = 0
    /\ res' = "running"
    /\ trace' = <<>>

\* new(): the pins are moved into the interface, the color is the default, init runs
new ==
    /\ model = "none"
    /\ pc = 0
    /\ op = "none"
    /\ \E m \in Models :
          /\ model' = m
          /\ color' = DefaultColor(m)
          /\ Begin("new", m, <<>>, NoArg)
    /\ UNCHANGED <<lines, target_os_linux, inst, sleeping>>

\* wake_up() that also puts the background color back to the default
wake_up_resetting_color ==
    /\ inst /\ pc = 0
    /\ Begin("wake_up", model, <<>>, NoArg)
    /\ sleeping' = FALSE
    /\ color' = DefaultColor(model)
    /\ UNCHANGED <<lines, target_os_linux, model, inst>>

wake_up ==
    /\ inst /\ pc = 0
    /\ Begin("wake_up", model, <<>>, NoArg)
    /\ sleeping' = FALSE
    /\ UNCHANGED <<lines, target_os_linux, model, inst, color>>

sleep ==
    /\ inst /\ pc = 0
    /\ Begin("sleep", model, <<>>, NoArg)
    /\ UNCHANGED <<lines, target_os_linux, model, inst, color, sleeping>>

update_frame ==
    /\ inst /\ pc = 0
    /\ \E b \in Buffers : Begin("update_frame", model, b, NoArg)
    /\ UNCHANGED <<lines, target_os_linux, model, inst, color, sleeping>>

display_frame ==
    /\ inst /\ pc = 0
    /\ Begin("display_frame", model, <<>>, NoArg)
    /\ UNCHANGED <<lines, target_os_linux, model, inst, color, sleeping>>

update_and_display_frame ==
    /\ inst /\ pc = 0
    /\ \E b \in Buffers : Begin("update_and_display_frame", model, b, NoArg)
    /\ UNCHANGED <<lines, target_os_linux, model, inst, color, sleeping>>

clear_frame ==
    /\ inst /\ pc = 0
    /\ Begin("clear_frame", model, <<>>, NoArg)
    /\ UNCHANGED <<lines, target_os_linux, model, inst, color, sleeping>>

\* self.color = color; no hardware operation
set_background_color ==
    /\ inst /\ pc = 0
    /\ \E c \in ColorInputs(model) :
          /\ color' = c
          /\ arg' = [NoArg EXCEPT !.color = c]
    /\ op' = "set_background_color"
    /\ buf' = <<>>
    /\ prog' = <<>>
    /\ res' = "Ok"
    /\ trace' = <<>>
    /\ cycles' = 0
    /\ UNCHANGED <<lines, target_os_linux, model, inst, sleeping, pc, spins, discards>>

\* background_color() answering the model's default color
background_color_default ==
    /\ inst /\ pc = 0
    /\ op' = "background_color"
    /\ buf' = <<>>
    /\ arg' = NoArg
    /\ prog' = <<>>
    /\ res' = DefaultColor(model)
    /\ trace' = <<>>
    /\ cycles' = 0
    /\ UNCHANGED <<lines, target_os_linux, model, inst, color, sleeping, pc, spins, discards>>

\* &self.color; no hardware operation.  The answer is the color's name.
background_color ==
    /\ inst /\ pc = 0
    /\ op' = "background_color"
    /\ buf' = <<>>
    /\ arg' = NoArg
    /\ prog' = <<>>
    /\ res' = color
    /\ trace' = <<>>
    /\ cycles' = 0
    /\ UNCHANGED <<lines, target_os_linux, model, inst, color, sleeping, pc, spins, discards>>

\* Epd::is_busy(): self.interface.is_busy(IS_BUSY_LOW), one read of the busy
\* pin.  The answer is "true" / "false"; a failed pin read is the Err of the
\* transport's Result.
is_busy_call ==
    /\ inst /\ pc = 0
    /\ LET pol == IF model = "Epd5in65f" THEN Epd5in65f_IS_BUSY_LOW ELSE Epd7in5_IS_BUSY_LOW
       IN  /\ \E e \in SampleOutcomes(Ins("wait", 0, <<>>, pol, 0), TRUE, TRUE) :
                 /\ trace' = <<e>>
                 /\ res' = IF ~e.ok THEN ErrOf(e.k)
                           ELSE IF BusyAnswer(pol, e) THEN "true" ELSE "false"
           /\ arg' = [NoArg EXCEPT !.flag = pol]
    /\ op' = "is_busy"
    /\ buf' = <<>>
    /\ prog' = <<>>
    /\ cycles' = 0
    /\ UNCHANGED <<lines, target_os_linux, model, inst, color, sleeping, pc, spins, discards>>

\* unimplemented!(): the call panics ("not implemented") before it touches
\* self or the hardware; its arguments are not used.  Whether the caller can
\* go on after the panic depends on the build's panic strategy: a build that
\* aborts or halts takes no further step.
Unimplemented(o, b) ==
    /\ inst /\ pc = 0
    /\ op' = o
    /\ buf' = b
    /\ arg' = NoArg
    /\ prog' = <<>>
    /\ res' = "Unimplemented"
    /\ trace' = <<>>
    /\ cycles' = 0
    /\ UNCHANGED <<lines, target_os_linux, model, inst, color, sleeping, pc, spins, discards>>

\* update_partial_frame() carrying out update_frame() on the whole buffer instead
update_partial_frame_as_full_update ==
    /\ inst /\ pc = 0
    /\ \E b \in Buffers :
          /\ op' = "update_partial_frame"
          /\ buf' = b
          /\ prog' = ProgramOf("update_frame", model, b, NoArg, color)
    /\ arg' = NoArg
    /\ pc' = 1
    /\ spins' = 0
    /\ discards' = 0
    /\ res' = "running"
    /\ trace' = <<>>
    /\ cycles' = 0
    /\ UNCHANGED <<lines, target_os_linux, model, inst, color, sleeping>>

update_partial_frame == \E b \in Buffers : Unimplemented("update_partial_frame", b)

set_lut == Unimplemented("set_lut", <<>>)

Init ==
    /\ target_os_linux \in BOOLEAN
    /\ model = "none"
    /\ inst = FALSE
    /\ color = "none"
    /\ sleeping = FALSE
    /\ op = "none"
    /\ buf = <<>>
    /\ arg = NoArg
    /\ prog = <<>>
    /\ pc = 0
    /\ spins = 0
    /\ discards = 0
    /\ res = "Ok"
    /\ trace = <<>>
    /\ cycles = 0
    /\ lines = [cs |-> "unknown", dc |-> "unknown"]

Next ==
    \/ new
    \/ wake_up
    \/ sleep
    \/ update_frame
    \/ display_frame
    \/ update_and_display_frame
    \/ clear_frame
    \/ set_background_color
    \/ background_color
    \/ update_partial_frame
    \/ set_lut
    \/ is_busy_call
    \/ StepHw
    \/ StepSample
    \/ StepFor
    \/ Return

Spec == Init /\ [][Next]_vars

----------------------------------------------------------------------------
(* The transport on its own: the crate-internal calls of DisplayInterface *)

\* a payload of the given length whose bytes differ from chunk to chunk
Payload(len, seed) == [i \in 1..len |-> ((7 * i) + seed) % 251]

PayloadLens ==
    {l \in {k * SPI_CHUNK + e : k \in 0..MaxFullChunks, e \in (0 - MaxExtra)..MaxExtra} : l >= 0}

Payloads == {Payload(l, seed) : l \in PayloadLens, seed \in {0, 100}}

T_cmd ==
    /\ pc = 0
    /\ \E c \in {"PowerOn", "DisplayRefresh"} : Begin("cmd", model, <<>>, [NoArg EXCEPT !.cmd = c])
    /\ UNCHANGED <<lines, target_os_linux, model, inst, color, sleeping>>

T_data ==
    /\ pc = 0
    /\ \E d \in Payloads : Begin("data", model, d, NoArg)
    /\ UNCHANGED <<lines, target_os_linux, model, inst, color, sleeping>>

T_cmd_with_data ==
    /\ pc = 0
    /\ \E d \in Buffers :
          Begin("cmd_with_data", model, d, [NoArg EXCEPT !.cmd = "DataStartTransmission1"])
    /\ UNCHANGED <<lines, target_os_linux, model, inst, color, sleeping>>

T_data_x_times ==
    /\ pc = 0
    /\ \E v \in {0, 255}, n \in 0..(MaxIter + 1) :
          Begin("data_x_times", model, <<>>, [NoArg EXCEPT !.val = v, !.n = n])
    /\ UNCHANGED <<lines, target_os_linux, model, inst, color, sleeping>>

T_wait_until_idle ==
    /\ pc = 0
    /\ \E is_busy_low \in BOOLEAN :
          Begin("wait_until_idle", model, <<>>, [NoArg EXCEPT !.flag = is_busy_low])
    /\ UNCHANGED <<lines, target_os_linux, model, inst, color, sleeping>>

\* the pulse durations handed to reset (a u8): what both init hand it, the
\* 10 ms most panels need, and the longest
PulseDurations == {RESET_PULSE_MS, 10, 255}

T_reset ==
    /\ pc = 0
    /\ \E duration \in PulseDurations :
          Begin("reset", model, <<>>, [NoArg EXCEPT !.val = duration])
    /\ UNCHANGED <<lines, target_os_linux, model, inst, color, sleeping>>

NextTransport ==
    \/ T_cmd
    \/ T_data
    \/ T_cmd_with_data
    \/ T_data_x_times
    \/ T_wait_until_idle
    \/ T_reset
    \/ StepHw
    \/ StepSample
    \/ StepFor
    \/ Return

SpecTransport == Init /\ [][NextTransport]_vars

\* A call is one thread of straight-line code: once entered it takes its next
\* step.  For the busy-wait loop the next step that changes anything, after
\* MaxSpin samples that read busy, is a sample that reads not-busy or fails:
\* fairness of StepSample is the assumption that the busy line does not read
\* busy forever.
SpecTransportFair ==
    /\ SpecTransport
    /\ WF_vars(StepHw)
    /\ WF_vars(StepSample)
    /\ WF_vars(StepFor)
    /\ WF_vars(Return)

\* The lifecycle contract together with the transport's reset called on its
\* own, with any pulse duration.
NextWithReset == Next \/ T_reset

SpecWithReset == Init /\ [][NextWithReset]_vars

----------------------------------------------------------------------------
(* Reading a trace *)

Returned == pc = 0 /\ op # "none"
ReturnedOk == Returned /\ res = "Ok"
FaultFree(t) == \A i \in DOMAIN t : t[i].ok

MaxOf(S) == CHOOSE x \in S : \A y \in S : y <= x

\* the events of t at the indices in S, in order
RECURSIVE PickFrom(_, _, _, _)
PickFrom(t, S, lo, hi) ==
    IF lo > hi THEN <<>>
    ELSE IF lo = hi THEN (IF lo \in S THEN <<t[lo]>> ELSE <<>>)
    ELSE LET mid == (lo + hi) \div 2
         IN  PickFrom(t, S, lo, mid) \o PickFrom(t, S, mid + 1, hi)
Pick(t, S) == PickFrom(t, S, 1, Len(t))

\* the level of the data/command-select line when event i of t happened:
\* the last successful write of that pin before i
DcAt(t, i) ==
    LET S == {j \in 1..(i - 1) : t[j].k \in {"dc_low", "dc_high"} /\ t[j].ok}
    IN  IF S = {} THEN "unset" ELSE t[MaxOf(S)].k

\* likewise for chip-select
CsAt(t, i) ==
    LET S == {j \in 1..(i - 1) : t[j].k \in {"cs_low", "cs_high"} /\ t[j].ok}
    IN  IF S = {} THEN "unset" ELSE t[MaxOf(S)].k

\* the bus writes that went out, and those of them that are opcodes (written
\* with data/command-select low)
SpiIdx(t) == {i \in DOMAIN t : t[i].k = "spi" /\ t[i].ok}
OpcodeIdx(t) == {i \in SpiIdx(t) : DcAt(t, i) = "dc_low"}
SampleIdx(t) == {i \in DOMAIN t : IsSample(t[i])}
Opcodes(t) == [i \in DOMAIN Pick(t, OpcodeIdx(t)) |-> Pick(t, OpcodeIdx(t))[i].bytes[1]]

\* the concatenation of the byte slices of a sequence of bus writes
RECURSIVE Concat(_)
Concat(w) == IF w = <<>> THEN <<>> ELSE Head(w).bytes \o Concat(Tail(w))

\* t, from event i on, is what is left of a complete run of program P from
\* position q: each event is one the instruction can produce, and the run
\* ends by returning Ok after the last instruction or at an undiscarded fault
NotARun == [pc |-> -1, lim |-> 0]

\* the recogniser's move on event e: st.pc is the instruction due (0 once the
\* call has returned a fault), st.lim the last instruction of a loop body
\* that was entered for an iteration that must fail
RunStep(P, st, e) ==
    IF st.pc < 1 \/ st.pc > Len(P) THEN NotARun
    ELSE LET ins == P[st.pc]
         IN  IF ins.k = "for"
             THEN IF e # Ev("repeat", e.v, ins.bytes, FALSE, TRUE) \/ e.v < 0 \/ e.v > ins.v
                  THEN NotARun
                  ELSE IF e.v = ins.v
                  THEN [pc |-> st.pc + ins.n + 1, lim |-> 0]
                  ELSE [pc |-> st.pc + 1, lim |-> st.pc + ins.n]
             ELSE IF e \notin (IF ins.k \in {"wait", "poll"}
                               THEN SampleOutcomes(ins, TRUE, TRUE)
                               ELSE HwOutcomes(ins))
             THEN NotARun
             ELSE LET a == Advance(P, st.pc, e)
                  IN  IF a.pc = 0 THEN [pc |-> 0, lim |-> 0]
                      ELSE IF st.lim > 0 /\ a.pc > st.lim THEN NotARun
                      ELSE [pc |-> a.pc, lim |-> st.lim]

RECURSIVE RunOver(_, _, _, _, _)
RunOver(P, st, t, lo, hi) ==
    IF lo > hi THEN st
    ELSE IF lo = hi THEN RunStep(P, st, t[lo])
    ELSE LET mid == (lo + hi) \div 2
             left == RunOver(P, st, t, lo, mid)
         IN  IF left.pc = -1 THEN NotARun ELSE RunOver(P, left, t, mid + 1, hi)

\* t is the history of one complete call of program P: each event is an
\* outcome of the instruction that was due, and the call has returned
Conforms(P, t) ==
    LET end == RunOver(P, [pc |-> 1, lim |-> 0], t, 1, Len(t))
    IN  end.pc = 0 \/ (end.pc = Len(P) + 1 /\ end.lim = 0)

----------------------------------------------------------------------------
(* C1 *)

\* C1: in every lifecycle operation of both models, a pin, bus or delay
\* operation that fails is the last hardware operation of the call, and the
\* call returns that fault: no hardware operation follows a failed one.
C1_FirstFaultEndsCall ==
    \A i \in DOMAIN trace :
        ~trace[i].ok => (i = Len(trace) /\ pc = 0 /\ res = ErrOf(trace[i].k))

----------------------------------------------------------------------------
(* C2, C3: one logical data write *)

DataReturnedOk == op = "data" /\ ReturnedOk

\* C2: during and after one data() call chip-select is asserted once, before
\* the first bus transfer, stays asserted across all transfers, and is
\* deasserted once, after the last transfer, when the call returns Ok.
C2_ChipSelectSpansAllChunks ==
    op = "data" =>
        LET lows == {i \in DOMAIN trace : trace[i].k = "cs_low"}
            highs == {i \in DOMAIN trace : trace[i].k = "cs_high"}
        IN  /\ Cardinality(lows) <= 1
            /\ Cardinality(highs) <= 1
            /\ \A i \in SpiIdx(trace) : CsAt(trace, i) = "cs_low"
            /\ \A i \in SpiIdx(trace), h \in highs : i < h
            /\ ReturnedOk =>
                  /\ Cardinality(lows) = 1
                  /\ Cardinality(highs) = 1
                  /\ trace[Len(trace)].k = "cs_high"
                  /\ Concat(Pick(trace, SpiIdx(trace))) = buf

\* a payload above the ceiling went out in several transfers
C2_Witness ==
    /\ DataReturnedOk
    /\ Len(buf) > SPI_CHUNK
    /\ Cardinality(SpiIdx(trace)) >= 2

\* C3 as stated: the transfers of data() concatenate to the payload and none
\* is longer than 4096 bytes, whatever the payload
C3_Original ==
    DataReturnedOk =>
        /\ Concat(Pick(trace, SpiIdx(trace))) = buf
        /\ \A i \in SpiIdx(trace) : Len(trace[i].bytes) <= SPI_CHUNK

\* C3 amended: the transfers of data() concatenate to the payload, byte for
\* byte and in order; built for Linux no transfer is longer than 4096 bytes
\* (and none is empty); built for any other target the payload goes out in
\* exactly one transfer, whatever its length.
C3_ChunkingPreservesPayload ==
    DataReturnedOk =>
        /\ Concat(Pick(trace, SpiIdx(trace))) = buf
        /\ FaultFree(trace)
        /\ target_os_linux =>
              /\ \A i \in SpiIdx(trace) :
                    Len(trace[i].bytes) >= 1 /\ Len(trace[i].bytes) <= SPI_CHUNK
              /\ Cardinality(SpiIdx(trace)) = (Len(buf) + SPI_CHUNK - 1) \div SPI_CHUNK
        /\ ~target_os_linux =>
              /\ Cardinality(SpiIdx(trace)) = 1
              /\ \A i \in SpiIdx(trace) : trace[i].bytes = buf

\* a payload of two full chunks and a rest went out chunked, on Linux
C3_Witness ==
    /\ DataReturnedOk
    /\ target_os_linux
    /\ Len(buf) > SPI_CHUNK + SPI_CHUNK
    /\ Cardinality(SpiIdx(trace)) = 3

----------------------------------------------------------------------------
(* C4: the display cycle of the eight-color model *)

IdleSample(k) == Ev(k, 0, <<>>, FALSE, TRUE)
OpcodeWrite(c) == Ev("spi", 0, <<address(c)>>, FALSE, TRUE)
PinOk(k) == Ev(k, 0, <<>>, FALSE, TRUE)

\* the bus writes and the samples that ended a wait (read "not busy"), in order
Milestones(t) ==
    Pick(t, {i \in SpiIdx(t) \cup SampleIdx(t) : ~(IsSample(t[i]) /\ t[i].ok /\ t[i].r)})

Epd5in65f_DisplayReturnedFaultFree ==
    /\ model = "Epd5in65f"
    /\ op = "display_frame"
    /\ ReturnedOk
    /\ FaultFree(trace)

\* C4: a fault-free display_frame of the 600x448 model is: wait until the
\* line is not low, power-on, the same wait, refresh, the same wait,
\* power-off, then a wait of the opposite sense (until the line is not high);
\* every bus write is one of these three opcodes, and a sample that reads
\* busy is followed by another sample of the same wait, never by an opcode.
C4_DisplayFrameSequence ==
    Epd5in65f_DisplayReturnedFaultFree =>
        /\ Milestones(trace) =
              <<IdleSample("is_low"), OpcodeWrite("PowerOn"),
                IdleSample("is_low"), OpcodeWrite("DisplayRefresh"),
                IdleSample("is_low"), OpcodeWrite("PowerOff"),
                IdleSample("is_high")>>
        /\ \A i \in SpiIdx(trace) : DcAt(trace, i) = "dc_low" /\ CsAt(trace, i) = "cs_low"
        /\ \A i \in SampleIdx(trace) :
              trace[i].r => (i < Len(trace) /\ trace[i + 1].k = trace[i].k)

\* a display_frame during which the panel was sampled busy
C4_Witness ==
    /\ Epd5in65f_DisplayReturnedFaultFree
    /\ \E i \in SampleIdx(trace) : trace[i].r

----------------------------------------------------------------------------
(* C5, C6: update_and_display_frame and clear_frame against display_frame *)

update_frame_of(m, b) ==
    IF m = "Epd5in65f" THEN Epd5in65f_update_frame(b) ELSE Epd7in5_update_frame(b)
display_frame_of(m) ==
    IF m = "Epd5in65f" THEN Epd5in65f_display_frame ELSE Epd7in5_display_frame

\* C5: the hardware operations of update_and_display_frame(buffer) are a run
\* of update_frame(buffer) followed by display_frame(), under the busy-line
\* readings and faults that occurred.
C5_UpdateAndDisplayIsComposition ==
    (inst /\ op = "update_and_display_frame" /\ Returned) =>
        Conforms(update_frame_of(model, buf) \o display_frame_of(model), trace)

\* the fills of clear_frame all ran to their end
FillsComplete ==
    LET fors == {q \in DOMAIN prog : prog[q].k = "for"}
        done == {i \in DOMAIN trace :
                    trace[i].k = "repeat" /\ \A q \in fors : trace[i].v = prog[q].v}
    IN  fors # {} /\ Cardinality(done) = Cardinality(fors)

AfterLastFill(t) ==
    SubSeq(t, MaxOf({i \in DOMAIN t : t[i].k = "repeat"}) + 1, Len(t))

\* C6: what clear_frame does after its last fill byte is a run of
\* display_frame() of that model.
C6_ClearFrameEndsWithDisplayFrame ==
    (inst /\ op = "clear_frame" /\ Returned /\ FillsComplete) =>
        Conforms(display_frame_of(model), AfterLastFill(trace))

----------------------------------------------------------------------------
(* C7: the fill byte of clear_frame *)

\* Color::get_byte_value: eight pixels of a monochrome color in one byte
Color_get_byte_value(c) == IF c = "White" THEN 255 ELSE 0

\* the solid-fill byte of color c under the pixel encoding of model m
SolidFill(m, c) ==
    IF m = "Epd5in65f" THEN colors_byte(c, c) ELSE Color_get_byte_value(c)

\* C7: every fill byte clear_frame streams is the solid-fill byte of the
\* current background color under the model's pixel encoding.
C7_FillByteIsBackgroundColor ==
    (inst /\ op = "clear_frame") =>
        \A i \in DOMAIN trace :
            trace[i].k = "repeat" => trace[i].bytes = <<SolidFill(model, color)>>

----------------------------------------------------------------------------
(* C8: the busy line when display_frame returns *)

IS_BUSY_LOW(m) == IF m = "Epd5in65f" THEN Epd5in65f_IS_BUSY_LOW ELSE Epd7in5_IS_BUSY_LOW

\* the level of the busy line that a successful pin read e saw
LineLow(e) == (e.k = "is_low" /\ e.r) \/ (e.k = "is_high" /\ ~e.r)

\* what Epd::is_busy() answers on a line at that level
Epd_is_busy(m, low) == is_busy(IS_BUSY_LOW(m), low, ~low)

OkSampleIdx(t) == {i \in SampleIdx(t) : t[i].ok}

\* C8 as stated: when display_frame returns Ok the busy line, as last read,
\* is not busy under the model's declared polarity (is_busy() is false).
C8_Original ==
    (inst /\ op = "display_frame" /\ ReturnedOk /\ OkSampleIdx(trace) # {}) =>
        ~Epd_is_busy(model, LineLow(trace[MaxOf(OkSampleIdx(trace))]))

\* C8 amended: when display_frame of the 600x448 model returns Ok its last
\* hardware operation is a read of the busy line with the opposite sense
\* (try_is_high) which failed (the fault being dropped) or read the line low,
\* so that is_busy() under the declared polarity is true on that reading;
\* when display_frame of the 800x480 model returns Ok it has just sent the
\* refresh opcode, and the last reading before it was not busy under the
\* declared polarity.
C8_DisplayFrameReturn ==
    (inst /\ op = "display_frame" /\ ReturnedOk) =>
        LET n == Len(trace)
        IN  IF model = "Epd5in65f"
            THEN /\ n >= 1
                 /\ trace[n].k = "is_high"
                 /\ trace[n].ok =>
                       /\ ~trace[n].r
                       /\ LineLow(trace[n])
                       /\ Epd_is_busy(model, LineLow(trace[n]))
            ELSE /\ n >= 5
                 /\ SubSeq(trace, n - 4, n) =
                       <<IdleSample("is_low"), PinOk("dc_low"), PinOk("cs_low"),
                         OpcodeWrite("DisplayRefresh"), PinOk("cs_high")>>
                 /\ ~Epd_is_busy(model, LineLow(trace[n - 4]))

\* display_frame of the 600x448 model returned Ok after its final wait saw the line low
C8_Witness ==
    /\ inst /\ op = "display_frame" /\ ReturnedOk
    /\ model = "Epd5in65f"
    /\ trace[Len(trace)].ok
    /\ LineLow(trace[Len(trace)])

----------------------------------------------------------------------------
(* C9: the bus after sleep() *)

DrawOps == {"update_frame", "display_frame", "update_and_display_frame", "clear_frame"}

\* C9 as stated: between the deep-sleep opcode and the next wake_up no
\* update / display / clear call writes to the bus.
C9_Original ==
    (inst /\ sleeping /\ op \in DrawOps) => SpiIdx(trace) = {}

\* C9 amended: a sleep() that returns Ok has sent, as its last two bus
\* writes, the deep-sleep opcode and its payload 0xA5, and the panel is
\* Sleeping; the driver keeps no record of that: an update / display / clear
\* call made before the next wake_up runs as usual, and when it returns Ok
\* it has written at least its opcode to the bus.
C9_SleepThenNoGuard ==
    /\ (inst /\ op = "sleep" /\ ReturnedOk) =>
          /\ sleeping
          /\ Len(trace) >= 8
          /\ SubSeq(trace, Len(trace) - 7, Len(trace)) =
                <<PinOk("dc_low"), PinOk("cs_low"), OpcodeWrite("DeepSleep"), PinOk("cs_high"),
                  PinOk("dc_high"), PinOk("cs_low"),
                  Ev("spi", 0, <<DEEP_SLEEP_CHECK>>, FALSE, TRUE), PinOk("cs_high")>>
    /\ (inst /\ sleeping /\ op \in DrawOps /\ ReturnedOk) => Opcodes(trace) # <<>>

\* an update_frame ran to its end while the panel was Sleeping
C9_Witness ==
    /\ inst /\ sleeping
    /\ op = "update_frame" /\ ReturnedOk
    /\ Opcodes(trace) # <<>>

----------------------------------------------------------------------------
(* C10: new() *)

init_of(m) == IF m = "Epd5in65f" THEN Epd5in65f_init ELSE Epd7in5_init

----------------------------------------------------------------------------
(* C11: the operations neither model supports *)

UnsupportedOps == {"update_partial_frame", "set_lut"}

\* C11: a call of update_partial_frame or set_lut ends at once in the
\* "not implemented" failure, performs no pin, bus or delay operation (it
\* starts no frame transfer) and changes nothing of the driver.
C11_UnsupportedOperationsFail ==
    [][op' \in UnsupportedOps =>
          /\ res' = "Unimplemented"
          /\ pc' = 0
          /\ trace' = <<>>
          /\ <<model', inst', color', sleeping'>> = <<model, inst, color, sleeping>>]_vars

\* update_partial_frame was called on a driver whose background color had been changed
C11_Witness ==
    /\ op = "update_partial_frame"
    /\ inst
    /\ color # DefaultColor(model)
    /\ buf # <<>>

----------------------------------------------------------------------------
(* C12: update_frame *)

start_transmission_of(m) ==
    IF m = "Epd5in65f" THEN "DataStartTransmission1" ELSE "DataStartTransmission2"

\* the bus writes made with data/command-select high
DataIdx(t) == SpiIdx(t) \ OpcodeIdx(t)

\* the last sample of the busy line before event i of t (0: none)
LastSampleBefore(t, i) ==
    LET S == {j \in SampleIdx(t) : j < i} IN IF S = {} THEN 0 ELSE MaxOf(S)

\* the sample read "not busy" in the sense of the wait that took it
ReadNotBusy(e) == IsSample(e) /\ e.ok /\ ~e.r

IsStatusQuery(e) == e.bytes = <<address("GetStatus")>>

UpdateFrameFaultFree ==
    /\ inst
    /\ op = "update_frame"
    /\ ReturnedOk
    /\ FaultFree(trace)

\* what update_frame does apart from its wait: the first hardware operation
\* is a sample of the busy line; the opcodes other than status queries are
\* resolution-set (eight-color model only, with four data bytes) and then
\* the model's start-transmission opcode, once; the data written after that
\* opcode is the buffer, within one chip-select frame
UpdateFrameSequence ==
    LET ops == Pick(trace, {i \in OpcodeIdx(trace) : ~IsStatusQuery(trace[i])})
        start == MaxOf(OpcodeIdx(trace))
    IN  /\ trace # <<>>
        /\ IsSample(trace[1])
        /\ [i \in DOMAIN ops |-> ops[i].bytes] =
              (IF model = "Epd5in65f" THEN <<(<<address("TconResolution")>>)>> ELSE <<>>)
              \o <<(<<address(start_transmission_of(model))>>)>>
        /\ trace[start].bytes = <<address(start_transmission_of(model))>>
        /\ Cardinality({i \in DataIdx(trace) : i < start}) =
              (IF model = "Epd5in65f" THEN 4 ELSE 0)
        /\ Concat(Pick(trace, {i \in DataIdx(trace) : i > start})) = buf
        /\ Cardinality({i \in DOMAIN trace : i > start /\ trace[i].k = "cs_low"}) = 1
        /\ \A i \in DataIdx(trace) : i > start => CsAt(trace, i) = "cs_low"

\* C12 as stated: a fault-free update_frame waits, sends the resolution
\* (eight-color model), the start-transmission opcode once and the buffer as
\* one data transmission, and sends no opcode while the panel is busy: the
\* last sample before every opcode read "not busy".
C12_Original ==
    UpdateFrameFaultFree =>
        /\ UpdateFrameSequence
        /\ \A i \in OpcodeIdx(trace) :
              /\ LastSampleBefore(trace, i) > 0
              /\ ReadNotBusy(trace[LastSampleBefore(trace, i)])

\* C12 amended: as stated, except that the wait of the 800x480 model itself
\* sends the status-query opcode while the panel is busy; no other opcode is
\* sent while the panel is busy, and on the 600x448 model none at all.
C12_UpdateFrameSequence ==
    UpdateFrameFaultFree =>
        /\ UpdateFrameSequence
        /\ \A i \in OpcodeIdx(trace) :
              /\ LastSampleBefore(trace, i) > 0
              /\ ~IsStatusQuery(trace[i]) => ReadNotBusy(trace[LastSampleBefore(trace, i)])
              /\ IsStatusQuery(trace[i]) =>
                    (model = "Epd7in5" /\ ~ReadNotBusy(trace[LastSampleBefore(trace, i)]))

\* an update_frame of the 800x480 model with a non-empty buffer, during
\* whose wait the panel was sampled busy
C12_Witness ==
    /\ UpdateFrameFaultFree
    /\ model = "Epd7in5"
    /\ buf # <<>>
    /\ \E i \in SampleIdx(trace) : trace[i].r

----------------------------------------------------------------------------
(* C13: wake_up against new *)

\* C13: the hardware operations of a wake_up() are a run of the sequence
\* new() performs (reset pulse, delays, opcodes with their payloads, busy
\* waits), and wake_up() does not change the stored background color.
C13_WakeUpRerunsInit ==
    [][op' = "wake_up" =>
          /\ color' = color
          /\ (pc # 0 /\ pc' = 0) =>
                Conforms(ProgramOf("new", model, <<>>, NoArg, color), trace')]_vars

\* a wake_up() that ran to its end on a driver whose color is not the default of new()
C13_Witness ==
    /\ inst
    /\ op = "wake_up"
    /\ ReturnedOk
    /\ color # DefaultColor(model)
    /\ Len(trace) > Len(reset(RESET_PULSE_MS))

----------------------------------------------------------------------------
(* C14: the opcodes of clear_frame of the eight-color model *)

Epd5in65f_ClearFrameFaultFree ==
    /\ inst
    /\ model = "Epd5in65f"
    /\ op = "clear_frame"
    /\ ReturnedOk
    /\ FaultFree(trace)

Epd5in65f_ClearFrameOpcodes ==
    <<address("TconResolution"), address("DataStartTransmission1"),
      address("PowerOn"), address("DisplayRefresh"), address("PowerOff")>>

\* the pairs of opcodes of t with no opcode in between
ConsecutiveOpcodes(t) ==
    {ij \in OpcodeIdx(t) \X OpcodeIdx(t) :
        ij[1] < ij[2] /\ ~\E k \in OpcodeIdx(t) : ij[1] < k /\ k < ij[2]}

\* a wait ended between events i and j of t: a sample there read "not busy"
WaitBetween(t, i, j) == \E k \in SampleIdx(t) : i < k /\ k < j /\ ReadNotBusy(t[k])

\* C14 as stated: a fault-free clear_frame of the 600x448 model emits
\* resolution-set, data-transmission-1, power-on, refresh, power-off in this
\* order, with a not-busy wait between every two consecutive opcodes.
C14_Original ==
    Epd5in65f_ClearFrameFaultFree =>
        /\ Opcodes(trace) = Epd5in65f_ClearFrameOpcodes
        /\ \A ij \in ConsecutiveOpcodes(trace) : WaitBetween(trace, ij[1], ij[2])

\* C14 amended: the five opcodes go out in that order; a not-busy wait
\* precedes resolution-set, and one lies between data-transmission-1 (with
\* its fill) and power-on, between power-on and refresh, and between refresh
\* and power-off; between resolution-set and data-transmission-1 there is no
\* wait, only the four data bytes of the resolution.
C14_ClearFrameOpcodeOrder ==
    Epd5in65f_ClearFrameFaultFree =>
        /\ Opcodes(trace) = Epd5in65f_ClearFrameOpcodes
        /\ \A i \in OpcodeIdx(trace) : LastSampleBefore(trace, i) > 0
        /\ \A ij \in ConsecutiveOpcodes(trace) :
              IF trace[ij[1]].bytes = <<address("TconResolution")>>
              THEN /\ ~\E k \in SampleIdx(trace) : ij[1] < k /\ k < ij[2]
                   /\ Cardinality({k \in DataIdx(trace) : ij[1] < k /\ k < ij[2]}) = 4
              ELSE /\ WaitBetween(trace, ij[1], ij[2])
                   /\ ReadNotBusy(trace[LastSampleBefore(trace, ij[2])])
        /\ \E k \in DOMAIN trace :
              /\ trace[k].k = "repeat"
              /\ \E ij \in ConsecutiveOpcodes(trace) :
                    /\ trace[ij[1]].bytes = <<address("DataStartTransmission1")>>
                    /\ ij[1] < k /\ k < LastSampleBefore(trace, ij[2])

\* a fault-free clear_frame of the 600x448 model during which the panel was sampled busy
C14_Witness ==
    /\ Epd5in65f_ClearFrameFaultFree
    /\ \E i \in SampleIdx(trace) : trace[i].r

----------------------------------------------------------------------------
(* C15: the length of the fill *)

width_of(m) == IF m = "Epd5in65f" THEN Epd5in65f_width ELSE Epd7in5_width
height_of(m) == IF m = "Epd5in65f" THEN Epd5in65f_height ELSE Epd7in5_height

\* pixels held by one byte of the model's frame: WIDTH * HEIGHT / 2, WIDTH * HEIGHT / 8
pixels_per_byte(m) == IF m = "Epd5in65f" THEN 2 ELSE 8

\* the fills of the running clear_frame, and the data-transmission opcodes sent
FillLoops == {q \in DOMAIN prog : prog[q].k = "for"}
FillEvents == {i \in DOMAIN trace : trace[i].k = "repeat"}

\* C15: the repetition count of every fill of clear_frame is
\* width() * height() divided by the pixels per byte, computed without
\* overflow of the 32-bit counter: 134400 on the 600x448 model (one fill),
\* 48000 on the 800x480 model (one fill per plane, two planes); a
\* clear_frame that returns Ok has streamed exactly that many bytes after
\* each data-transmission opcode.
C15_FillLength ==
    (inst /\ op = "clear_frame") =>
        LET n == (width_of(model) * height_of(model)) \div pixels_per_byte(model)
        IN  /\ n = (IF model = "Epd5in65f" THEN 134400 ELSE 48000)
            /\ Cardinality(FillLoops) = (IF model = "Epd5in65f" THEN 1 ELSE 2)
            /\ \A q \in FillLoops : prog[q].v = n
            /\ \A i \in FillEvents :
                  /\ trace[i].v <= n
                  /\ trace[i].v < n => ~ReturnedOk
                  /\ \E o \in OpcodeIdx(trace) :
                        /\ o < i
                        /\ trace[o].bytes \in {<<address("DataStartTransmission1")>>,
                                               <<address("DataStartTransmission2")>>}
                        /\ ~\E k \in SpiIdx(trace) \cup FillEvents : o < k /\ k < i
            /\ ReturnedOk => Cardinality(FillEvents) = Cardinality(FillLoops)

\* clear_frame of the 800x480 model returned Ok after filling both planes
C15_Witness ==
    /\ inst
    /\ op = "clear_frame"
    /\ model = "Epd7in5"
    /\ ReturnedOk
    /\ Cardinality({i \in FillEvents : trace[i].v = 48000}) = 2

----------------------------------------------------------------------------
(* C16: is_busy *)

\* C16: is_busy() of a driver is one read of the busy pin and nothing else
\* (no bus write, no delay, no loop); both models declare the line
\* low-active, and the answer is true exactly when the line was read low and
\* false exactly when it was read high.  At the transport,
\* is_busy(busy_is_low) on a line that is low or high is true iff
\* (busy_is_low and the line is low) or (not busy_is_low and the line is high).
C16_IsBusyFollowsPolarity ==
    /\ \A p \in BOOLEAN, low \in BOOLEAN :
          is_busy(p, low, ~low) <=> ((p /\ low) \/ (~p /\ ~low))
    /\ op = "is_busy" =>
          /\ pc = 0
          /\ Len(trace) = 1
          /\ IsSample(trace[1])
          /\ IS_BUSY_LOW(model)
          /\ arg.flag = IS_BUSY_LOW(model)
          /\ trace[1].ok =>
                /\ res \in {"true", "false"}
                /\ res = "true" <=> LineLow(trace[1])
                /\ res = "true" <=> Epd_is_busy(model, LineLow(trace[1]))
          /\ ~trace[1].ok => res = "PinError"

\* is_busy() answered false on a line that was read high
C16_Witness ==
    /\ inst
    /\ op = "is_busy"
    /\ res = "false"
    /\ trace[1].ok
    /\ ~LineLow(trace[1])

----------------------------------------------------------------------------
(* C17: sleep(); wake_up() cycles in a row *)

sleep_of(m) == IF m = "Epd5in65f" THEN Epd5in65f_sleep ELSE Epd7in5_sleep

\* the hardware operations a sleep() / wake_up() of model m is made of
CycleProgram(o, m) == IF o = "sleep" THEN sleep_of(m) ELSE init_of(m)

\* C17: whatever the number of sleep(); wake_up() cycles already performed in
\* a row and whatever the background color, a sleep() or wake_up() leaves the
\* background color and the model (hence width and height) as they were, and
\* performs a run of the same sequence of hardware operations as in the
\* first cycle: the one fixed by the model alone.
C17_SleepWakeCycleIdempotent ==
    [][op' \in {"sleep", "wake_up"} =>
          /\ color' = color
          /\ model' = model
          /\ width_of(model') = width_of(model) /\ height_of(model') = height_of(model)
          /\ pc = 0 => prog' = CycleProgram(op', model)
          /\ (pc # 0 /\ pc' = 0) => Conforms(CycleProgram(op, model), trace')]_vars

\* the second of two sleep(); wake_up() cycles in a row has completed, on a
\* driver whose background color is not the default
C17_Witness ==
    /\ inst
    /\ cycles = 2
    /\ op = "wake_up"
    /\ ReturnedOk
    /\ ~sleeping
    /\ color # DefaultColor(model)

----------------------------------------------------------------------------
(* C18: the background color round trip *)

\* C18: set_background_color(C) stores exactly C and background_color()
\* answers exactly the stored color, neither of them performing a hardware
\* operation; no call on the instance other than set_background_color changes
\* the stored color (new() is what gives the instance its first color), so
\* background_color() answers C however many other calls came in between.
C18_BackgroundColorRoundTrip ==
    [][/\ op' = "set_background_color" =>
             (color' = arg'.color /\ trace' = <<>> /\ pc' = 0)
       /\ op' = "background_color" =>
             (res' = color' /\ color' = color /\ trace' = <<>> /\ pc' = 0)
       /\ color' # color => (op' = "set_background_color" \/ (op' = "new" /\ ~inst))]_vars

\* background_color() answered a color that is not the default, on a panel
\* that was put to sleep
C18_Witness ==
    /\ op = "background_color"
    /\ res = color
    /\ color # DefaultColor(model)
    /\ sleeping

----------------------------------------------------------------------------
(* C19: the transport's busy wait has no timeout *)

InTransportWait == op = "wait_until_idle"

\* what a call of the transport's wait_until_idle(arg.flag) has done so far:
\* nothing but reads of the busy pin in the sense of the polarity; every read
\* but the latest succeeded and read busy; the call is still in its loop
\* after a read that read busy, and has returned Ok only after a read that
\* read not-busy
TransportWaitPolls ==
    InTransportWait =>
        /\ \A i \in DOMAIN trace : trace[i].k = SampleKind(arg.flag)
        /\ \A i \in 1..(Len(trace) - 1) : trace[i].ok /\ BusyAnswer(arg.flag, trace[i])
        /\ res \in {"running", "Ok", "PinError"}
        /\ (pc = 0 /\ res = "Ok") =>
              (trace # <<>> /\ trace[Len(trace)].ok /\ ~BusyAnswer(arg.flag, trace[Len(trace)]))
        /\ (pc = 0 /\ res = "PinError") => (trace # <<>> /\ ~trace[Len(trace)].ok)
        /\ (trace # <<>> /\ trace[Len(trace)].ok /\ BusyAnswer(arg.flag, trace[Len(trace)])) =>
              (pc = 1 /\ res = "running")

\* C19: the transport's wait_until_idle(busy_is_low) only reads the busy pin
\* (no bus write, no delay), goes on reading while the reads say busy,
\* returns Ok only directly after a read that said not-busy, and returns
\* once the line stops reading busy.
C19_WaitUntilIdleNoTimeout ==
    /\ []TransportWaitPolls
    /\ (InTransportWait /\ pc # 0) ~> (InTransportWait /\ pc = 0)

\* wait_until_idle(false) returned Ok after a read that said busy
C19_Witness ==
    /\ InTransportWait
    /\ ReturnedOk
    /\ ~arg.flag
    /\ Len(trace) = MaxSpin + 1
    /\ trace[1].ok /\ trace[1].r

----------------------------------------------------------------------------
(* C20: the busy wait of the 800x480 model polls by status query *)

\* what one iteration of the wait's loop body puts on the pins, the bus and
\* the delay when nothing fails
StatusQueryRound ==
    <<PinOk("dc_low"), PinOk("cs_low"), OpcodeWrite("GetStatus"), PinOk("cs_high"),
      Ev("delay", STATUS_POLL_MS, <<>>, FALSE, TRUE)>>

\* the samples of t that read busy
BusySampleIdx(t) == {i \in OkSampleIdx(t) : t[i].r}

\* the status-query opcodes of t
StatusQueryIdx(t) == {i \in OpcodeIdx(t) : IsStatusQuery(t[i])}

\* the calls of the 800x480 model that wait for the panel
Epd7in5_WaitingOps ==
    {"new", "wake_up", "sleep", "update_frame", "display_frame",
     "update_and_display_frame", "clear_frame"}

\* C20: in every call of the 800x480 model, each sample of the busy line
\* that reads busy is followed by one status-query opcode and a 20 ms delay
\* and then by the next sample; a status query is sent only directly after a
\* sample that read busy (none when the first sample reads not-busy); the
\* call goes on past a wait only from a sample that read not-busy, so that
\* a call that returns Ok has sent as many status queries as it took busy
\* samples, and init, which ends with a wait, ends on a not-busy sample.
C20_StatusQueryPerBusyIteration ==
    (model = "Epd7in5" /\ op \in Epd7in5_WaitingOps) =>
        /\ \A i \in BusySampleIdx(trace) :
              /\ \A j \in 1..5 :
                    i + j <= Len(trace) =>
                        /\ [trace[i + j] EXCEPT !.ok = TRUE] = StatusQueryRound[j]
                        /\ i + j < Len(trace) => trace[i + j].ok
              /\ i + 6 <= Len(trace) => IsSample(trace[i + 6])
              /\ (i = Len(trace)) => (pc # 0 /\ res = "running")
        /\ \A i \in StatusQueryIdx(trace) : i >= 4 /\ (i - 3) \in BusySampleIdx(trace)
        /\ \A i \in DOMAIN trace :
              (trace[i].k = "delay" /\ trace[i].v = STATUS_POLL_MS) =>
                  (i >= 6 /\ (i - 5) \in BusySampleIdx(trace))
        /\ \A i \in SampleIdx(trace) : trace[i].k = SampleKind(Epd7in5_IS_BUSY_LOW)
        /\ ReturnedOk =>
              /\ Cardinality(StatusQueryIdx(trace)) = Cardinality(BusySampleIdx(trace))
              /\ op \in {"new", "wake_up"} => ReadNotBusy(trace[Len(trace)])

\* sleep() of the 800x480 model returned Ok: its first wait found the panel
\* idle at once and sent no status query, its second wait sampled busy and
\* sent one
C20_Witness ==
    /\ model = "Epd7in5"
    /\ inst
    /\ op = "sleep"
    /\ ReturnedOk
    /\ ReadNotBusy(trace[1])
    /\ Cardinality(BusySampleIdx(trace)) = MaxSpin
    /\ Cardinality(StatusQueryIdx(trace)) = MaxSpin

----------------------------------------------------------------------------
(* C21: framing of the transport's bus writes *)

FramingOps == {"cmd", "data", "cmd_with_data", "data_x_times"}

CsIdx(t) == {i \in DOMAIN t : t[i].k \in {"cs_low", "cs_high"}}
DcIdx(t) == {i \in DOMAIN t : t[i].k \in {"dc_low", "dc_high"}}

\* the bus write at event i of the running call carries the opcode: the one
\* write of cmd(), the first write of cmd_with_data()
IsOpcodeWrite(i) ==
    op \in {"cmd", "cmd_with_data"} /\ ~\E j \in 1..(i - 1) : trace[j].k = "spi"

\* every bus write of the call so far went out with chip-select low, the
\* opcode with data/command-select low and the payload with it high; the
\* fill loop of data_x_times ran with data/command-select high
WritesFramed ==
    /\ (trace # <<>> /\ trace[Len(trace)].k = "spi") =>
          /\ lines.cs = "low"
          /\ lines.dc = IF IsOpcodeWrite(Len(trace)) THEN "low" ELSE "high"
    /\ (trace # <<>> /\ trace[Len(trace)].k = "repeat") => lines.dc = "high"
    /\ \A i \in DOMAIN trace :
          trace[i].k = "spi" =>
              /\ i >= 2 /\ (trace[i - 1].k = "cs_low" \/ trace[i - 1].k = "spi")
              /\ trace[i - 1].ok

\* C21 as stated: bytes go out only under chip-select, opcodes with
\* data/command-select low and payload with it high, the select line is
\* never switched while chip-select is asserted, and after every transport
\* call that returns Ok chip-select is not asserted.  (A line the transport
\* has not driven yet is not counted as asserted.)
C21_Original ==
    (op \in FramingOps) =>
        /\ WritesFramed
        /\ (trace # <<>> /\ trace[Len(trace)].k \in {"dc_low", "dc_high"}) => lines.cs # "low"
        /\ ReturnedOk => lines.cs # "low"

\* C21 amended: bytes go out only under chip-select, opcodes with
\* data/command-select low and payload with it high; within one call the
\* select line is set before the call asserts chip-select and each
\* assertion is closed before the next; after a call that returns Ok and
\* wrote to the bus chip-select is high.  data_x_times with zero repetitions
\* sets data/command-select only and leaves chip-select as it found it.
C21_FramingWithinCall ==
    (op \in FramingOps) =>
        /\ WritesFramed
        /\ \A i \in DcIdx(trace) :
              \A j \in CsIdx(trace) :
                  (j < i /\ ~\E k \in CsIdx(trace) : j < k /\ k < i) =>
                      (trace[j].k = "cs_high" /\ trace[j].ok)
        /\ \A i \in CsIdx(trace) :
              /\ DcIdx(trace) # {} /\ \E d \in DcIdx(trace) : d < i
              /\ \A j \in CsIdx(trace) :
                    (j < i /\ ~\E k \in CsIdx(trace) : j < k /\ k < i) =>
                        (trace[j].k # trace[i].k /\ trace[j].ok)
        /\ (ReturnedOk /\ (op # "data_x_times" \/ arg.n > 0)) => lines.cs = "high"
        /\ (ReturnedOk /\ op = "data_x_times" /\ arg.n = 0) =>
              trace = <<PinOk("dc_high"), Ev("repeat", 0, <<arg.val>>, FALSE, TRUE)>>

\* cmd_with_data(command, payload) returned Ok: the opcode and a non-empty
\* payload went out, chip-select is back high
C21_Witness ==
    /\ op = "cmd_with_data"
    /\ ReturnedOk
    /\ buf # <<>>
    /\ lines = [cs |-> "high", dc |-> "high"]

----------------------------------------------------------------------------
(* C22: the reset pulse *)

\* reset line high, 200 ms, reset line low, the pulse, reset line high, 200 ms
ResetSequence(pulse) ==
    <<PinOk("rst_high"), Ev("delay", 200, <<>>, FALSE, TRUE),
      PinOk("rst_low"), Ev("delay", pulse, <<>>, FALSE, TRUE),
      PinOk("rst_high"), Ev("delay", 200, <<>>, FALSE, TRUE)>>

\* C22: reset(pulse_duration) performs, as far as it gets, reset line high,
\* delay 200, reset line low, delay pulse_duration, reset line high, delay
\* 200 and nothing else (no bus write); when it returns Ok it has performed
\* all six and the reset line was last driven high.  In new() and wake_up()
\* of both models no byte goes out on the bus before the whole reset
\* sequence, with the pulse init asks for, has been performed.
C22_ResetSequence ==
    /\ op = "reset" =>
          /\ Len(trace) <= 6
          /\ \A i \in DOMAIN trace :
                /\ [trace[i] EXCEPT !.ok = TRUE] = ResetSequence(arg.val)[i]
                /\ i < Len(trace) => trace[i].ok
          /\ ReturnedOk => trace = ResetSequence(arg.val)
    /\ (model # "none" /\ op \in {"new", "wake_up"}) =>
          /\ \A i \in DOMAIN trace :
                i <= 6 => [trace[i] EXCEPT !.ok = TRUE] = ResetSequence(RESET_PULSE_MS)[i]
          /\ \A i \in DOMAIN trace :
                trace[i].k \in {"spi", "dc_low", "cs_low"} =>
                    (i > 6 /\ SubSeq(trace, 1, 6) = ResetSequence(RESET_PULSE_MS))
          /\ ReturnedOk => \A i \in 7..Len(trace) : trace[i].k \notin {"rst_low", "rst_high"}

\* reset returned Ok, called on a constructed driver's transport with a
\* pulse other than the one init asks for
C22_Witness ==
    /\ inst
    /\ op = "reset"
    /\ ReturnedOk
    /\ arg.val = 255
    /\ Len(trace) = 6

----------------------------------------------------------------------------
(* C23: the resolution fields of the 600x448 model *)

\* the data-transmission-1 opcodes of t
Transmission1Idx(t) ==
    {i \in OpcodeIdx(t) : t[i].bytes = <<address("DataStartTransmission1")>>}

\* the last opcode of t before event i (0: none)
OpcodeBefore(t, i) ==
    LET S == {j \in OpcodeIdx(t) : j < i} IN IF S = {} THEN 0 ELSE MaxOf(S)

\* the bytes written to the bus between events j and i of t
BytesBetween(t, j, i) == Concat(Pick(t, {k \in SpiIdx(t) : j < k /\ k < i}))

\* C23: in update_frame, update_and_display_frame and clear_frame of the
\* 600x448 model every data-transmission-1 opcode is preceded by the
\* resolution-set opcode, with no other opcode in between, and between the
\* two exactly the four payload bytes 0x02, 0x58 (600, high byte first) and
\* 0x01, 0xC0 (448, high byte first) are written, all in data mode.
C23_ResolutionBeforeTransmission ==
    (model = "Epd5in65f" /\ op \in {"update_frame", "update_and_display_frame", "clear_frame"}) =>
        \A i \in Transmission1Idx(trace) :
            LET j == OpcodeBefore(trace, i)
            IN  /\ j > 0
                /\ trace[j].bytes = <<address("TconResolution")>>
                /\ BytesBetween(trace, j, i) = <<2, 88, 1, 192>>
                /\ \A k \in SpiIdx(trace) : (j < k /\ k < i) => DcAt(trace, k) = "dc_high"

\* update_frame(buffer) of the 600x448 model returned Ok: the resolution,
\* the data-transmission-1 opcode and the buffer went out
C23_Witness ==
    /\ model = "Epd5in65f"
    /\ inst
    /\ op = "update_frame"
    /\ ReturnedOk
    /\ buf # <<>>
    /\ Transmission1Idx(trace) # {}

============================================================================
